---- MODULE Spec2Model ----
(***************************************************************************)
(* Model of the ISEP ICS bridge: the event extraction parser               *)
(* (src/app/parser.py) and the cache refresh orchestrator with its read    *)
(* path (src/app/main.py).                                                 *)
(*                                                                         *)
(* Text is a sequence of character codes (ASCII).  A timestamp is the      *)
(* tuple <<year, month, day, hour, minute>> of a naive datetime.           *)
(*                                                                         *)
(* A blob is modelled at token level: a sequence of tokens                 *)
(*   "lb"    an opening brace                                              *)
(*   "rb"    a closing brace                                               *)
(*   "start" the text  <key start> : new Date(<args>)                      *)
(*   "end"   the text  <key end>   : new Date(<args>)                      *)
(*   "title" the text  <key title> : '<text>'                              *)
(*   "body"  the text  <key body>  : '<text>'                              *)
(* Field quoted says whether the key is written in quotes; num says        *)
(* whether the constructor arguments have the shape DATE_RE accepts (a     *)
(* 4-digit year and four 1-2 digit numbers), v holds those five numbers    *)
(* and text the captured string.  Braces, keys and constructors inside     *)
(* string fields are outside this abstraction.                             *)
(***************************************************************************)
EXTENDS Integers, Sequences, FiniteSets, TLC

VARIABLES
    js_blob,        \* parser: the blob given to extract_events
    blocks,         \* parser: EVENT_BLOCK_RE.findall(js_blob) still to visit
    p_events,       \* parser: the local list events
    p_pc,           \* parser: "call", "loop", "returned" or "raised"
    clock,          \* the wall clock, in units of one minute
    portal,         \* upstream: what the portal answers for each window
    cache_ics,      \* main.py:36  _cache_ics
    cache_expires,  \* main.py:37  _cache_expires
    ics_cycle,      \* history: the refresh cycle that wrote cache_ics (0: none)
    exp_cycle,      \* history: the refresh cycle that wrote cache_expires
    pc,             \* per calendar() call: where the call stands
    now,            \* per call: the local now of line 191
    wk,             \* per call: index of the window the loop of line 162 is at
    events,         \* per call: the local list events of refresh_cache
    seen,           \* per call: the local set seen of refresh_cache
    got,            \* history, per call: what each window visited so far gave
    log,            \* history, per call: the upstream calls issued, in order
    resp            \* per call: the outcome of calendar()

pvars == <<js_blob, blocks, p_events, p_pc>>
cvars == <<clock, portal, cache_ics, cache_expires, ics_cycle, exp_cycle,
           pc, now, wk, events, seen, got, log, resp>>
vars == <<pvars, cvars>>

(***************************************************************************)
(* Bounds of the model and configuration.                                  *)
(***************************************************************************)
MaxBlocks == 2          \* pieces per blob drawn for the parser
MaxCalls == 2           \* calendar() requests served, possibly concurrently
MaxClock == 2           \* the clock runs from 0 to MaxClock
WEEKS_BEFORE == 0       \* ISEP_FETCH_WEEKS_BEFORE
WEEKS_AFTER == 1        \* ISEP_FETCH_WEEKS_AFTER
REFRESH_MIN == 1        \* ISEP_REFRESH_MINUTES

(***************************************************************************)
(* Character codes.                                                        *)
(***************************************************************************)
Space == 32
Quote1 == 39            \* '
Quote2 == 34            \* "
Backslash == 92
Lt == 60
Gt == 62
Hyphen == 45

IsSpace(c) == c \in {32, 9, 10, 13, 11, 12}
IsUpper(c) == c \in 65..90
IsLower(c) == c \in 97..122
IsDigit(c) == c \in 48..57
IsRoomChar(c) == IsUpper(c) \/ IsLower(c) \/ IsDigit(c) \/ c = Hyphen

Min(a, b) == IF a <= b THEN a ELSE b

Prefix(s, n) == SubSeq(s, 1, Min(n, Len(s)))

Drop(s, n) == SubSeq(s, n + 1, Len(s))

(***************************************************************************)
(* The text functions scan their argument once, left to right.  A scan of  *)
(* the characters lo..hi is the scan of the first half followed by the     *)
(* scan of the second half from the state the first half ends in, so the   *)
(* depth of the evaluation stays logarithmic in the length of the text.    *)
(***************************************************************************)
Mid(lo, hi) == (lo + hi) \div 2

(***************************************************************************)
(* parser.py:59-61  unescape_js: four successive str.replace calls.        *)
(* str.replace takes the occurrences left to right, without overlap: skip  *)
(* says that the character is the second one of a replaced pair.           *)
(***************************************************************************)
RECURSIVE ReplaceRange(_, _, _, _, _, _, _)
ReplaceRange(s, a, b, r, lo, hi, skip) ==
    IF lo = hi
    THEN IF skip THEN [out |-> <<>>, skip |-> FALSE]
         ELSE IF lo < Len(s) /\ s[lo] = a /\ s[lo + 1] = b
              THEN [out |-> <<r>>, skip |-> TRUE]
              ELSE [out |-> <<s[lo]>>, skip |-> FALSE]
    ELSE LET left == ReplaceRange(s, a, b, r, lo, Mid(lo, hi), skip)
             right == ReplaceRange(s, a, b, r, Mid(lo, hi) + 1, hi, left.skip)
         IN  [out |-> left.out \o right.out, skip |-> right.skip]

\* a text without the first character of the pair has no occurrence
Replace2(s, a, b, r) ==
    IF \A i \in 1..Len(s) : s[i] # a THEN s
    ELSE ReplaceRange(s, a, b, r, 1, Len(s), FALSE).out

unescape_js(s) ==
    Replace2(Replace2(Replace2(Replace2(s,
        Backslash, Quote1, Quote1),
        Backslash, Quote2, Quote2),
        Backslash, 110, Space),
        Backslash, 114, Space)

(***************************************************************************)
(* parser.py:19-22  _strip_html: the visible text of the fragment, text    *)
(* nodes joined by a space, whitespace runs collapsed, ends trimmed.       *)
(* A tag is the text from "<" to the next ">".                             *)
(***************************************************************************)
RECURSIVE GetTextRange(_, _, _, _)
GetTextRange(s, lo, hi, inTag) ==
    IF lo = hi
    THEN IF inTag
         THEN IF s[lo] = Gt THEN [out |-> <<Space>>, inTag |-> FALSE]
                            ELSE [out |-> <<>>, inTag |-> TRUE]
         ELSE IF s[lo] = Lt THEN [out |-> <<>>, inTag |-> TRUE]
                            ELSE [out |-> <<s[lo]>>, inTag |-> FALSE]
    ELSE LET left == GetTextRange(s, lo, Mid(lo, hi), inTag)
             right == GetTextRange(s, Mid(lo, hi) + 1, hi, left.inTag)
         IN  [out |-> left.out \o right.out, inTag |-> right.inTag]

\* a text without "<" is one text node
GetText(s, inTag) ==
    IF Len(s) = 0 \/ (~inTag /\ \A i \in 1..Len(s) : s[i] # Lt) THEN s
    ELSE GetTextRange(s, 1, Len(s), inTag).out

\* " ".join(text.split()): gap says that whitespace was met after a word
RECURSIVE CollapseRange(_, _, _, _, _)
CollapseRange(s, lo, hi, word, gap) ==
    IF lo = hi
    THEN IF IsSpace(s[lo]) THEN [out |-> <<>>, word |-> word, gap |-> word]
         ELSE [out |-> (IF gap THEN <<Space>> ELSE <<>>) \o <<s[lo]>>,
               word |-> TRUE, gap |-> FALSE]
    ELSE LET left == CollapseRange(s, lo, Mid(lo, hi), word, gap)
             right == CollapseRange(s, Mid(lo, hi) + 1, hi, left.word, left.gap)
         IN  [out |-> left.out \o right.out, word |-> right.word, gap |-> right.gap]

\* a text without whitespace is one word
Collapse(s, pendingGap) ==
    IF Len(s) = 0 \/ (~pendingGap /\ \A i \in 1..Len(s) : ~IsSpace(s[i])) THEN s
    ELSE CollapseRange(s, 1, Len(s), pendingGap, pendingGap).out

strip_html(html) == Collapse(GetText(html, FALSE), FALSE)

(***************************************************************************)
(* parser.py:71-73  the room heuristic                                     *)
(*   (Sala\s+[A-Za-z0-9\-]+|[A-Z]-\d{2,3})   first match, leftmost.        *)
(***************************************************************************)
CharIs(class, c) ==
    IF class = "space" THEN IsSpace(c) ELSE IsRoomChar(c)

\* the least element of a non-empty set of numbers
Least(S) == CHOOSE j \in S : \A k \in S : j <= k

\* the number of characters of s from position i on that are of the class
SpanWhile(s, i, class) ==
    LET stops == {j \in i..Len(s) : ~CharIs(class, s[j])}
    IN  IF stops # {} THEN Least(stops) - i
        ELSE IF i <= Len(s) THEN Len(s) - i + 1 ELSE 0

SalaLen(s, i) ==
    \* length of a match of Sala\s+[A-Za-z0-9\-]+ at position i, or 0
    IF i + 3 <= Len(s) /\ SubSeq(s, i, i + 3) = <<83, 97, 108, 97>>
    THEN LET ws == SpanWhile(s, i + 4, "space")
             id == SpanWhile(s, i + 4 + ws, "room")
         IN  IF ws >= 1 /\ id >= 1 THEN 4 + ws + id ELSE 0
    ELSE 0

RoomLen(s, i) ==
    \* length of a match of [A-Z]-\d{2,3} at position i, or 0
    IF i + 3 <= Len(s) /\ IsUpper(s[i]) /\ s[i + 1] = Hyphen
       /\ IsDigit(s[i + 2]) /\ IsDigit(s[i + 3])
    THEN IF i + 4 <= Len(s) /\ IsDigit(s[i + 4]) THEN 5 ELSE 4
    ELSE 0

\* re.search: the match at the leftmost position that has one, the first
\* alternative before the second
FindLocation(s, i) ==
    LET hits == {j \in i..Len(s) : SalaLen(s, j) > 0 \/ RoomLen(s, j) > 0}
        at == Least(hits)
    IN  IF hits = {} THEN <<>>
        ELSE IF SalaLen(s, at) > 0 THEN SubSeq(s, at, at + SalaLen(s, at) - 1)
        ELSE SubSeq(s, at, at + RoomLen(s, at) - 1)

(***************************************************************************)
(* parser.py:14-17  _parse_js_date: datetime(y, mth + 1, d, hh, mm).       *)
(* datetime() raises ValueError outside year 1..9999, month 1..12,         *)
(* day 1..days-in-month, hour 0..23, minute 0..59.                         *)
(***************************************************************************)
IsLeap(y) == (y % 4 = 0 /\ y % 100 # 0) \/ y % 400 = 0

DaysInMonth(y, m) ==
    IF m = 2 THEN (IF IsLeap(y) THEN 29 ELSE 28)
    ELSE IF m \in {4, 6, 9, 11} THEN 30 ELSE 31

DatetimeOk(y, m, d, hh, mm) ==
    /\ y \in 1..9999
    /\ m \in 1..12
    /\ d >= 1 /\ d <= DaysInMonth(y, m)
    /\ hh \in 0..23
    /\ mm \in 0..59

\* variant: the month taken as it is written
ParseDateMonthZeroBased(mth) == mth

ParseDateMonth(mth) == mth + 1

ParseDateRaises(v) == ~DatetimeOk(v[1], ParseDateMonth(v[2]), v[3], v[4], v[5])

parse_js_date(v) == <<v[1], ParseDateMonth(v[2]), v[3], v[4], v[5]>>

(***************************************************************************)
(* parser.py:9-12, 42  EVENT_BLOCK_RE.findall: non-overlapping matches,    *)
(* left to right.  A match opens at a brace, runs over brace-free text to  *)
(* the first quoted start key with a constructor, then lazily over any     *)
(* text (braces included) to the first quoted end key with a constructor,  *)
(* then lazily to the first closing brace.                                 *)
(***************************************************************************)
IsBrace(t) == t.k \in {"lb", "rb"}
IsStartKey(t) == t.k = "start" /\ t.quoted
IsEndKey(t) == t.k = "end" /\ t.quoted

IsDate(t) == t.k \in {"start", "end"} /\ t.num
IsTitle(t) == t.k = "title" /\ t.quoted
IsBody(t) == t.k = "body" /\ t.quoted

TokenIs(what, t) ==
    CASE what = "endkey" -> IsEndKey(t)
      [] what = "rb" -> t.k = "rb"
      [] what = "date" -> IsDate(t)
      [] what = "title" -> IsTitle(t)
      [] what = "body" -> IsBody(t)

RECURSIVE FirstFrom(_, _, _)
\* the first index >= i whose token is a `what', or 0
FirstFrom(blob, i, what) ==
    IF i > Len(blob) THEN 0
    ELSE IF TokenIs(what, blob[i]) THEN i
    ELSE FirstFrom(blob, i + 1, what)

RECURSIVE StartKeyFrom(_, _)
\* the first quoted start key at or after i with no brace before it, or 0
StartKeyFrom(blob, i) ==
    IF i > Len(blob) THEN 0
    ELSE IF IsStartKey(blob[i]) THEN i
    ELSE IF IsBrace(blob[i]) THEN 0
    ELSE StartKeyFrom(blob, i + 1)

\* the index of the closing brace of the match opening at i, or 0
MatchEnd(blob, i) ==
    IF blob[i].k # "lb" THEN 0
    ELSE LET s == StartKeyFrom(blob, i + 1) IN
         IF s = 0 THEN 0
         ELSE LET e == FirstFrom(blob, s + 1, "endkey") IN
              IF e = 0 THEN 0
              ELSE FirstFrom(blob, e + 1, "rb")

RECURSIVE FindAllFrom(_, _)
FindAllFrom(blob, i) ==
    IF i > Len(blob) THEN <<>>
    ELSE LET m == MatchEnd(blob, i) IN
         IF m = 0 THEN FindAllFrom(blob, i + 1)
         ELSE <<SubSeq(blob, i, m)>> \o FindAllFrom(blob, m + 1)

EVENT_BLOCK_RE_findall(blob) == FindAllFrom(blob, 1)

(***************************************************************************)
(* parser.py:43-81  one iteration of the loop over the blocks.             *)
(* DATE_RE.search finds the first constructor of numeric shape, whatever   *)
(* key it is bound to; the second search starts after the first match.     *)
(***************************************************************************)
Placeholder == <<67, 108, 97, 115, 115>>     \* "Class"
SummaryMax == 200
DescriptionMax == 2000

\* variant: the title kept whole
SummaryWhole(title_txt) ==
    IF title_txt # <<>> THEN title_txt ELSE Placeholder

Summary(title_txt) ==
    IF title_txt # <<>> THEN Prefix(title_txt, SummaryMax) ELSE Placeholder

Description(body_txt) ==
    IF body_txt # <<>> THEN Prefix(body_txt, DescriptionMax) ELSE <<>>

NoEvent == [start |-> <<>>, end |-> <<>>, summary |-> <<>>,
            location |-> <<>>, description |-> <<>>]

BlockEvent(block, sm, em) ==
    LET tm == FirstFrom(block, 1, "title")
        bm == FirstFrom(block, 1, "body")
        title_html == IF tm # 0 THEN unescape_js(block[tm].text) ELSE <<>>
        body_html == IF bm # 0 THEN unescape_js(block[bm].text) ELSE <<>>
        title_txt == strip_html(title_html)
        body_txt == strip_html(body_html)
    IN  [start |-> parse_js_date(block[sm].v),
         end |-> parse_js_date(block[em].v),
         summary |-> Summary(title_txt),
         location |-> FindLocation(title_txt, 1),
         description |-> Description(body_txt)]

\* what one iteration does: "skip" (continue), "raise" (ValueError leaves
\* extract_events) or "emit" (events.append)
ParseBlock(block) ==
    LET sm == FirstFrom(block, 1, "date") IN
    IF sm = 0 THEN [kind |-> "skip", ev |-> NoEvent]
    ELSE IF ParseDateRaises(block[sm].v) THEN [kind |-> "raise", ev |-> NoEvent]
    ELSE LET em == FirstFrom(block, sm + 1, "date") IN
         IF em = 0 THEN [kind |-> "skip", ev |-> NoEvent]
         ELSE IF ParseDateRaises(block[em].v) THEN [kind |-> "raise", ev |-> NoEvent]
         ELSE [kind |-> "emit", ev |-> BlockEvent(block, sm, em)]

(***************************************************************************)
(* parser.py:24-82  extract_events as a function of the blob: the list it  *)
(* returns, or raised = TRUE when a ValueError escapes it.  A null or      *)
(* empty blob is the empty token sequence.                                 *)
(***************************************************************************)
RECURSIVE ParseBlocks(_, _)
ParseBlocks(bs, acc) ==
    IF Len(bs) = 0 THEN [raised |-> FALSE, events |-> acc]
    ELSE LET o == ParseBlock(Head(bs)) IN
         IF o.kind = "raise" THEN [raised |-> TRUE, events |-> <<>>]
         ELSE IF o.kind = "skip" THEN ParseBlocks(Tail(bs), acc)
         ELSE ParseBlocks(Tail(bs), Append(acc, o.ev))

extract_events(blob) ==
    IF blob = <<>> THEN [raised |-> FALSE, events |-> <<>>]
    ELSE ParseBlocks(EVENT_BLOCK_RE_findall(blob), <<>>)


(***************************************************************************)
(* Inputs: tokens, blocks and blobs the upstream may send.                 *)
(***************************************************************************)
Tok(k, quoted, num, v, text) ==
    [k |-> k, quoted |-> quoted, num |-> num, v |-> v, text |-> text]

LB == Tok("lb", FALSE, FALSE, <<>>, <<>>)
RB == Tok("rb", FALSE, FALSE, <<>>, <<>>)
StartTok(v) == Tok("start", TRUE, TRUE, v, <<>>)
EndTok(v) == Tok("end", TRUE, TRUE, v, <<>>)
TitleTok(text) == Tok("title", TRUE, FALSE, <<>>, text)
BodyTok(text) == Tok("body", TRUE, FALSE, <<>>, text)

\* constructor arguments datetime() refuses: month 12, day 0, day 32,
\* hour 24, minute 60, 30 February, year 0
BadArgs ==
    { <<2025, 12, 1, 10, 0>>, <<2025, 8, 0, 10, 0>>, <<2025, 8, 32, 10, 0>>,
      <<2025, 8, 18, 24, 0>>, <<2025, 8, 18, 10, 60>>, <<2025, 1, 30, 10, 0>>,
      <<0, 8, 18, 10, 0>> }

TxtA == <<65>>                                  \* A
TxtB == <<66>>                                  \* B
TxtRoom == <<60, 98, 62, 77, 32, 32, 66, 45, 50, 48, 52, 60, 47, 98, 62>>
                                                \* <b>M  B-204</b>
TxtEsc == <<92, 110, 65, 92, 39>>               \* \nA\'

GoodBlock(s, e, title, body) ==
    <<LB, StartTok(s), EndTok(e), TitleTok(title), BodyTok(body), RB>>

Block1 == GoodBlock(<<2025, 8, 18, 18, 10>>, <<2025, 8, 18, 19, 50>>, TxtA, TxtB)
Block2 == GoodBlock(<<2025, 8, 18, 18, 10>>, <<2025, 8, 18, 19, 50>>, TxtEsc, TxtA)
Block3 == GoodBlock(<<2025, 0, 31, 9, 0>>, <<2025, 11, 31, 10, 0>>, TxtRoom, <<>>)
BlockNoEnd == <<LB, StartTok(<<2025, 8, 19, 9, 0>>), TitleTok(TxtB), RB>>
BlockNaN ==
    <<LB, Tok("start", TRUE, FALSE, <<>>, <<>>),
      EndTok(<<2025, 8, 18, 19, 50>>), RB>>
BlockBare ==
    <<LB, Tok("start", FALSE, TRUE, <<2025, 8, 20, 9, 0>>, <<>>),
      Tok("end", FALSE, TRUE, <<2025, 8, 20, 10, 0>>, <<>>),
      Tok("title", FALSE, FALSE, <<>>, TxtA), RB>>
BlockBadStart(v) == <<LB, StartTok(v), EndTok(<<2025, 8, 18, 19, 50>>), RB>>
BlockBadEnd(v) == <<LB, StartTok(<<2025, 8, 18, 18, 10>>), EndTok(v), RB>>

\* a title and a body one character longer than what a record keeps
TxtLongTitle == [i \in 1..(SummaryMax + 1) |-> IF i = SummaryMax THEN 121 ELSE 120]
TxtLongBody ==
    [i \in 1..(DescriptionMax + 1) |-> IF i = DescriptionMax THEN 121 ELSE 120]
TxtTags == <<60, 98, 62, 32, 60, 47, 98, 62>>   \* <b> </b>

BlockLong ==
    GoodBlock(<<2025, 8, 22, 9, 0>>, <<2025, 8, 22, 10, 0>>, TxtLongTitle, TxtLongBody)
BlockPlain ==
    <<LB, StartTok(<<2025, 8, 23, 9, 0>>), EndTok(<<2025, 8, 23, 10, 0>>), RB>>
BlockTags ==
    <<LB, StartTok(<<2025, 8, 24, 9, 0>>), EndTok(<<2025, 8, 24, 10, 0>>),
      TitleTok(TxtTags), RB>>

Pieces ==
    {Block1, Block2, Block3, BlockNoEnd, BlockNaN, BlockBare,
     BlockLong, BlockPlain, BlockTags}
    \cup {BlockBadStart(v) : v \in BadArgs}
    \cup {BlockBadEnd(<<2025, 12, 1, 10, 0>>)}

RECURSIVE Join(_)
Join(ps) == IF Len(ps) = 0 THEN <<>> ELSE Head(ps) \o Join(Tail(ps))

\* the blobs of at most MaxBlocks pieces
ParserBlobs ==
    {Join(ps) : ps \in UNION {[1..n -> Pieces] : n \in 0..MaxBlocks}}

(***************************************************************************)
(* The parser as a process: extract_events run one loop iteration at a     *)
(* time on a blob drawn at the start.                                      *)
(***************************************************************************)
\* parser.py:38-42
ParseCall ==
    /\ p_pc = "call"
    /\ IF js_blob = <<>>
       THEN /\ p_pc' = "returned"
            /\ blocks' = <<>>
       ELSE /\ p_pc' = "loop"
            /\ blocks' = EVENT_BLOCK_RE_findall(js_blob)
    /\ p_events' = <<>>
    /\ UNCHANGED <<js_blob, cvars>>

\* parser.py:42-81  one iteration
ParseIter ==
    /\ p_pc = "loop"
    /\ blocks # <<>>
    /\ LET o == ParseBlock(Head(blocks)) IN
       /\ p_pc' = IF o.kind = "raise" THEN "raised" ELSE "loop"
       /\ p_events' = IF o.kind = "emit" THEN Append(p_events, o.ev)
                      ELSE p_events
    /\ blocks' = Tail(blocks)
    /\ UNCHANGED <<js_blob, cvars>>

\* parser.py:82
ParseReturn ==
    /\ p_pc = "loop"
    /\ blocks = <<>>
    /\ p_pc' = "returned"
    /\ UNCHANGED <<js_blob, blocks, p_events, cvars>>


(***************************************************************************)
(* The orchestrator's pure steps (main.py:157-182).                        *)
(***************************************************************************)
Calls == 1..MaxCalls

\* main.py:158  the whole-week offsets of the probe instants, in order
Weeks == [i \in 1..(WEEKS_BEFORE + WEEKS_AFTER + 1) |-> i - 1 - WEEKS_BEFORE]

NumWeeks == Len(Weeks)

\* Python's ordering of tuples of numbers and of str: lexicographic
RECURSIVE SeqLess(_, _)
SeqLess(a, b) ==
    IF Len(b) = 0 THEN FALSE
    ELSE IF Len(a) = 0 THEN TRUE
    ELSE IF a[1] # b[1] THEN a[1] < b[1]
    ELSE SeqLess(Tail(a), Tail(b))

\* variant: the sort key without its tie-break, e["start"] alone
SortKeyLessStartOnly(a, b) == SeqLess(a.start, b.start)

\* main.py:182  the sort key (e["start"], e["summary"])
SortKeyLess(a, b) ==
    \/ SeqLess(a.start, b.start)
    \/ a.start = b.start /\ SeqLess(a.summary, b.summary)

\* main.py:176  the dedup key
DedupKey(ev) == <<ev.start, ev.end, ev.summary>>

\* variant: the loop without seen.add(key), every record is appended
RECURSIVE MergeWeekNoSeen(_, _, _)
MergeWeekNoSeen(evs, sn, week_events) ==
    IF Len(week_events) = 0 THEN [events |-> evs, seen |-> sn]
    ELSE MergeWeekNoSeen(Append(evs, Head(week_events)), sn, Tail(week_events))

\* main.py:175-180  merging one window's records into (events, seen)
RECURSIVE MergeWeek(_, _, _)
MergeWeek(evs, sn, week_events) ==
    IF Len(week_events) = 0 THEN [events |-> evs, seen |-> sn]
    ELSE LET ev == Head(week_events)
             key == DedupKey(ev)
         IN  IF key \in sn
             THEN MergeWeek(evs, sn, Tail(week_events))
             ELSE MergeWeek(Append(evs, ev), sn \cup {key}, Tail(week_events))

\* list.sort is stable: a record goes after every record not greater
RECURSIVE InsertSorted(_, _)
InsertSorted(sorted, ev) ==
    IF Len(sorted) = 0 THEN <<ev>>
    ELSE IF SortKeyLess(ev, Head(sorted)) THEN <<ev>> \o sorted
    ELSE <<Head(sorted)>> \o InsertSorted(Tail(sorted), ev)

RECURSIVE SortFrom(_, _)
SortFrom(sorted, rest) ==
    IF Len(rest) = 0 THEN sorted
    ELSE SortFrom(InsertSorted(sorted, Head(rest)), Tail(rest))

\* main.py:182
SortEvents(evs) == SortFrom(<<>>, evs)

(***************************************************************************)
(* main.py:125-148  build_ics: one VEVENT per record, in order.  The bytes *)
(* are modelled by the calendar they encode; kind tells None, b"" and a    *)
(* calendar apart.                                                         *)
(***************************************************************************)
None == [kind |-> "None", cal |-> <<>>]
EmptyBytes == [kind |-> "empty", cal |-> <<>>]

VEvent(ev) ==
    [dtstart |-> ev.start, dtend |-> ev.end, summary |-> ev.summary,
     location |-> ev.location, description |-> ev.description,
     uid |-> <<ev.start, ev.summary>>]

\* variant: no bytes at all for an empty record list
build_ics_blank(all_events) ==
    IF all_events = <<>> THEN EmptyBytes
    ELSE [kind |-> "ics",
          cal |-> [i \in 1..Len(all_events) |-> VEvent(all_events[i])]]

build_ics(all_events) ==
    [kind |-> "ics", cal |-> [i \in 1..Len(all_events) |-> VEvent(all_events[i])]]

\* every statement of build_ics that can raise is inside its loop over the
\* records (localize, add, timestamp): with no record it returns
BuildMayRaise(all_events) == all_events # <<>>

\* truthiness of _cache_ics (main.py:192, 194)
Falsy(b) == b.kind \in {"None", "empty"}

\* main.py:37  datetime.min is naive; main.py:185 writes an aware datetime
DatetimeMin == [aware |-> FALSE, t |-> 0]
Aware(t) == [aware |-> TRUE, t |-> t]

\* main.py:192  now >= _cache_expires, for an aware expiry
Expired(n, exp) == n >= exp.t

\* variant: the expiry without the TTL
NewExpiryNoTtl(t) == Aware(t)

\* main.py:185  datetime.now(APP_TZ) + timedelta(minutes=REFRESH_MIN)
NewExpiry(t) == Aware(t + REFRESH_MIN)

NoResp == [status |-> 0, exc |-> "", body |-> None]


(***************************************************************************)
(* The read path and the refresh cycle, one action per step at which       *)
(* another thread can run in between (FastAPI serves a def endpoint on a   *)
(* thread pool; the globals are read and written without a lock).          *)
(***************************************************************************)
\* main.py:152-161  refresh_cache up to the loop
BeginRefresh(c) ==
    /\ wk' = [wk EXCEPT ![c] = 1]
    /\ events' = [events EXCEPT ![c] = <<>>]
    /\ seen' = [seen EXCEPT ![c] = {}]
    /\ pc' = [pc EXCEPT ![c] = "resolve"]

\* main.py:189-191  a request arrives and reads the clock
CalendarStart(c) ==
    /\ pc[c] = "idle"
    /\ IF c = 1 THEN TRUE ELSE pc[c - 1] # "idle"
    /\ now' = [now EXCEPT ![c] = clock]
    /\ pc' = [pc EXCEPT ![c] = "check_ics"]
    /\ UNCHANGED <<pvars, clock, portal, cache_ics, cache_expires, ics_cycle,
                   exp_cycle, wk, events, seen, got, log, resp>>

\* main.py:192  the left operand: not _cache_ics
CheckIcs(c) ==
    /\ pc[c] = "check_ics"
    /\ IF Falsy(cache_ics)
       THEN BeginRefresh(c)
       ELSE /\ pc' = [pc EXCEPT ![c] = "check_exp"]
            /\ UNCHANGED <<wk, events, seen>>
    /\ UNCHANGED <<pvars, clock, portal, cache_ics, cache_expires, ics_cycle,
                   exp_cycle, now, got, log, resp>>

\* main.py:192  the right operand: now >= _cache_expires.  Comparing the
\* aware now with the naive datetime.min raises TypeError.
CheckExpires(c) ==
    /\ pc[c] = "check_exp"
    /\ IF ~cache_expires.aware
       THEN /\ pc' = [pc EXCEPT ![c] = "done"]
            /\ resp' = [resp EXCEPT ![c] =
                           [status |-> 500, exc |-> "TypeError", body |-> None]]
            /\ UNCHANGED <<wk, events, seen>>
       ELSE IF Expired(now[c], cache_expires)
       THEN BeginRefresh(c) /\ UNCHANGED resp
       ELSE /\ pc' = [pc EXCEPT ![c] = "return"]
            /\ UNCHANGED <<wk, events, seen, resp>>
    /\ UNCHANGED <<pvars, clock, portal, cache_ics, cache_expires, ics_cycle,
                   exp_cycle, now, got, log>>

\* variant: break instead of continue after a failed window
ContinueBreak(c, result) ==
    /\ got' = [got EXCEPT ![c] = Append(@, result)]
    /\ wk' = [wk EXCEPT ![c] = @ + 1]
    /\ pc' = [pc EXCEPT ![c] =
                 IF wk[c] + 1 > NumWeeks \/ ~result.ok THEN "build"
                 ELSE "resolve"]

\* main.py:162, 167, 169, 174  the loop goes on to the next window
Continue(c, result) ==
    /\ got' = [got EXCEPT ![c] = Append(@, result)]
    /\ wk' = [wk EXCEPT ![c] = @ + 1]
    /\ pc' = [pc EXCEPT ![c] =
                 IF wk[c] + 1 > NumWeeks THEN "build" ELSE "resolve"]

NoRecords == [ok |-> FALSE, events |-> <<>>]

\* variant: the fetch is issued whatever the resolve call gave
ResolveAlwaysFetch(c) ==
    /\ pc[c] = "resolve"
    /\ log' = [log EXCEPT ![c] = Append(@, <<"resolve", Weeks[wk[c]]>>)]
    /\ pc' = [pc EXCEPT ![c] = "fetch"]
    /\ UNCHANGED <<pvars, clock, portal, cache_ics, cache_expires, ics_cycle,
                   exp_cycle, now, wk, events, seen, got, resp>>

\* main.py:163-169  get_code_week_for_date raises, returns no token, or
\* returns a token
Resolve(c) ==
    /\ pc[c] = "resolve"
    /\ log' = [log EXCEPT ![c] = Append(@, <<"resolve", Weeks[wk[c]]>>)]
    /\ IF portal[wk[c]].resolve = "token"
       THEN /\ pc' = [pc EXCEPT ![c] = "fetch"]
            /\ UNCHANGED <<wk, got>>
       ELSE Continue(c, NoRecords)
    /\ UNCHANGED <<pvars, clock, portal, cache_ics, cache_expires, ics_cycle,
                   exp_cycle, now, events, seen, resp>>

\* main.py:170-180  get_week_events raises (the request, or extract_events
\* inside it), or returns the records, which are merged
Fetch(c) ==
    /\ pc[c] = "fetch"
    /\ log' = [log EXCEPT ![c] = Append(@, <<"fetch", Weeks[wk[c]]>>)]
    /\ LET r == extract_events(portal[wk[c]].blob)
           m == MergeWeek(events[c], seen[c], r.events)
       IN  IF portal[wk[c]].fetch = "raise" \/ r.raised
           THEN /\ Continue(c, NoRecords)
                /\ UNCHANGED <<events, seen>>
           ELSE /\ Continue(c, [ok |-> TRUE, events |-> r.events])
                /\ events' = [events EXCEPT ![c] = m.events]
                /\ seen' = [seen EXCEPT ![c] = m.seen]
    /\ UNCHANGED <<pvars, clock, portal, cache_ics, cache_expires, ics_cycle,
                   exp_cycle, now, resp>>

\* variant: a failed build drops the cached bytes
BuildRaisesClearing(c) ==
    /\ pc' = [pc EXCEPT ![c] = "done"]
    /\ resp' = [resp EXCEPT ![c] =
                   [status |-> 500, exc |-> "EncodingError", body |-> None]]
    /\ cache_ics' = None
    /\ UNCHANGED ics_cycle

\* main.py:184  build_ics raises: the exception leaves refresh_cache and
\* calendar(), nothing is written
BuildRaises(c) ==
    /\ pc' = [pc EXCEPT ![c] = "done"]
    /\ resp' = [resp EXCEPT ![c] =
                   [status |-> 500, exc |-> "EncodingError", body |-> None]]
    /\ UNCHANGED <<cache_ics, ics_cycle>>

\* main.py:184  the store to _cache_ics
StoreIcs(c, bytes) ==
    /\ cache_ics' = bytes
    /\ ics_cycle' = c
    /\ pc' = [pc EXCEPT ![c] = "store_exp"]
    /\ UNCHANGED resp

\* main.py:182-184  sort, build, store the bytes
Build(c) ==
    /\ pc[c] = "build"
    /\ LET sorted == SortEvents(events[c]) IN
       /\ events' = [events EXCEPT ![c] = sorted]
       /\ \/ BuildMayRaise(sorted) /\ BuildRaises(c)
          \/ StoreIcs(c, build_ics(sorted))
    /\ UNCHANGED <<pvars, clock, portal, cache_expires, exp_cycle, now, wk,
                   seen, got, log>>

\* main.py:185  the store to _cache_expires
StoreExpires(c) ==
    /\ pc[c] = "store_exp"
    /\ cache_expires' = NewExpiry(clock)
    /\ exp_cycle' = c
    /\ pc' = [pc EXCEPT ![c] = "return"]
    /\ UNCHANGED <<pvars, clock, portal, cache_ics, ics_cycle, now, wk,
                   events, seen, got, log, resp>>

\* main.py:194  Response(content=_cache_ics or b"")
Return(c) ==
    /\ pc[c] = "return"
    /\ resp' = [resp EXCEPT ![c] =
                   [status |-> 200, exc |-> "",
                    body |-> IF Falsy(cache_ics) THEN EmptyBytes ELSE cache_ics]]
    /\ pc' = [pc EXCEPT ![c] = "done"]
    /\ UNCHANGED <<pvars, clock, portal, cache_ics, cache_expires, ics_cycle,
                   exp_cycle, now, wk, events, seen, got, log>>

\* main.py:196-198  healthz answers with _cache_expires and writes nothing
HealthzBody == [status |-> "ok", cache_expires |-> cache_expires]

Healthz ==
    /\ HealthzBody.status = "ok"
    /\ UNCHANGED vars

\* time passes
Tick ==
    /\ clock < MaxClock
    /\ clock' = clock + 1
    /\ UNCHANGED <<pvars, portal, cache_ics, cache_expires, ics_cycle,
                   exp_cycle, pc, now, wk, events, seen, got, log, resp>>

(***************************************************************************)
(* Specifications.                                                         *)
(***************************************************************************)
InitParserIdle ==
    /\ js_blob = <<>>
    /\ blocks = <<>>
    /\ p_events = <<>>
    /\ p_pc = "call"

\* main.py:36-37 and no request yet
InitServer ==
    /\ clock = 0
    /\ cache_ics = None
    /\ cache_expires = DatetimeMin
    /\ ics_cycle = 0
    /\ exp_cycle = 0
    /\ pc = [c \in Calls |-> "idle"]
    /\ now = [c \in Calls |-> 0]
    /\ wk = [c \in Calls |-> 0]
    /\ events = [c \in Calls |-> <<>>]
    /\ seen = [c \in Calls |-> {}]
    /\ got = [c \in Calls |-> <<>>]
    /\ log = [c \in Calls |-> <<>>]
    /\ resp = [c \in Calls |-> NoResp]

\* What the portal does for one window: getCodeWeekByData raises, answers
\* without a token or answers a token; mudar_semana raises or answers blob.
PortalWeek(resolve, fetch, blob) ==
    [resolve |-> resolve, fetch |-> fetch, blob |-> blob]

ResolveRaises == PortalWeek("raise", "raise", <<>>)
NoToken == PortalWeek("none", "raise", <<>>)
FetchRaises == PortalWeek("token", "raise", <<>>)
Answers(blob) == PortalWeek("token", "ok", blob)

\* the upstream of the concurrent runs: one class a week, or a failure
WeekBlock(w) ==
    GoodBlock(<<2025, 8, w, 18, 10>>, <<2025, 8, w, 19, 50>>, TxtA, <<>>)

SpecPortals ==
    { [w \in 1..NumWeeks |-> Answers(WeekBlock(w))],
      [w \in 1..NumWeeks |-> NoToken],
      [w \in 1..NumWeeks |-> FetchRaises],
      [w \in 1..NumWeeks |->
          IF w = 1 THEN ResolveRaises ELSE Answers(WeekBlock(w))] }

Init ==
    /\ InitParserIdle
    /\ InitServer
    /\ portal \in SpecPortals

Next ==
    \/ \E c \in Calls :
          \/ CalendarStart(c)
          \/ CheckIcs(c)
          \/ CheckExpires(c)
          \/ Resolve(c)
          \/ Fetch(c)
          \/ Build(c)
          \/ StoreExpires(c)
          \/ Return(c)
    \/ Healthz
    \/ Tick

\* concurrent calendar() requests, healthz probes and the clock
Spec == Init /\ [][Next]_vars

\* the blobs one refresh cycle may meet in a window
MergeBlobs ==
    { <<>>,
      Block1,
      GoodBlock(<<2025, 8, 18, 18, 10>>, <<2025, 8, 18, 19, 50>>, TxtA, TxtA),
      GoodBlock(<<2025, 8, 18, 18, 10>>, <<2025, 8, 18, 19, 0>>, TxtA, <<>>),
      GoodBlock(<<2025, 8, 18, 18, 10>>, <<2025, 8, 18, 19, 50>>, TxtB, <<>>),
      Block3 \o Block1 \o Block1,
      Block1 \o BlockBadStart(<<2025, 12, 1, 10, 0>>) }

InitMerge ==
    /\ InitParserIdle
    /\ InitServer
    /\ portal \in [1..NumWeeks ->
                      {ResolveRaises, NoToken, FetchRaises}
                      \cup {Answers(b) : b \in MergeBlobs}]

NextMerge ==
    \/ CalendarStart(1)
    \/ CheckIcs(1)
    \/ Resolve(1)
    \/ Fetch(1)
    \/ Build(1)
    \/ StoreExpires(1)
    \/ Return(1)

\* one refresh cycle, run by the first request, over every upstream
SpecMerge == InitMerge /\ [][NextMerge]_vars

InitParse ==
    /\ js_blob \in ParserBlobs
    /\ blocks = <<>>
    /\ p_events = <<>>
    /\ p_pc = "call"
    /\ InitServer
    /\ portal = [w \in 1..NumWeeks |-> NoToken]

NextParse == ParseCall \/ ParseIter \/ ParseReturn

\* extract_events on every blob of ParserBlobs
SpecParse == InitParse /\ [][NextParse]_vars


(***************************************************************************)
(* Properties of the cache and of the read path (Spec).                    *)
(***************************************************************************)
InRefresh(c) == pc[c] \in {"resolve", "fetch", "build", "store_exp"}

RECURSIVE CountResolves(_)
CountResolves(l) ==
    IF Len(l) = 0 THEN 0
    ELSE (IF Head(l)[1] = "resolve" THEN 1 ELSE 0) + CountResolves(Tail(l))

RECURSIVE SumResolves(_)
SumResolves(cs) ==
    IF cs = {} THEN 0
    ELSE LET c == CHOOSE x \in cs : TRUE
         IN  CountResolves(log[c]) + SumResolves(cs \ {c})

\* C1: refresh serialization.  At most one refresh cycle is in flight at any
\* time, and the calls that arrive before any time has passed (so before any
\* expiry) issue together one cycle's worth of upstream resolve calls.
C1_RefreshSerialized ==
    /\ Cardinality({c \in Calls : InRefresh(c)}) <= 1
    /\ clock = 0 => SumResolves(Calls) <= NumWeeks

\* C2: atomic publication.  In every state the cached bytes and the cached
\* expiry were written by the same refresh cycle (or are both the initial
\* values), so a reader running in that state sees a pair produced together.
C2_AtomicPublication == ics_cycle = exp_cycle

\* C3: a calendar() call whose refresh failed in build_ics does not fail: it
\* ends with a success status.
C3_BuildFailureStillServes ==
    \A c \in Calls :
        (pc[c] = "done" /\ resp[c].exc = "EncodingError") => resp[c].status = 200

\* C4: a refresh cycle whose build_ics fails leaves the cache slot as it was:
\* the failing step changes neither the bytes nor the expiry, the failed
\* cycle has written neither, and the slot only ever changes by the stores of
\* a cycle whose build succeeded.
C4_BuildFailureKeepsCache ==
    [][ /\ \A c \in Calls :
             /\ (pc[c] = "build" /\ pc'[c] = "done") =>
                    (cache_ics' = cache_ics /\ cache_expires' = cache_expires)
             /\ resp'[c].exc = "EncodingError" => (ics_cycle' # c /\ exp_cycle' # c)
        /\ (cache_ics' # cache_ics \/ cache_expires' # cache_expires) =>
               \E c \in Calls :
                   /\ pc[c] \in {"build", "store_exp"}
                   /\ pc'[c] \in {"store_exp", "return"}
      ]_vars

\* a build failed while an artifact published by an earlier cycle is cached
C4_Witness ==
    \E c \in Calls :
        /\ resp[c].exc = "EncodingError"
        /\ ics_cycle # 0
        /\ cache_ics.kind = "ics"
        /\ cache_expires.aware

\* an instant is at or past an expiry; datetime.min precedes every instant
AtOrPast(n, exp) == ~exp.aware \/ n >= exp.t

\* C5: a calendar() call refreshes exactly when, at its check, no artifact
\* is cached or its now is at or past the cached expiry (the expiry instant
\* included); a call that finds an artifact and now before the expiry issues
\* no upstream call, changes neither bytes nor expiry and returns the cached
\* bytes.
C5_RefreshIffAbsentOrExpired ==
    [][ \A c \in Calls :
          /\ (pc[c] = "check_ics" /\ pc'[c] # "check_ics") =>
                 (pc'[c] = "resolve" <=> cache_ics.kind # "ics")
          /\ (pc[c] = "check_exp" /\ pc'[c] # "check_exp") =>
                 /\ cache_ics.kind = "ics"
                 /\ pc'[c] = "resolve" <=> AtOrPast(now[c], cache_expires)
                 /\ pc'[c] = "return" <=> ~AtOrPast(now[c], cache_expires)
                 /\ pc'[c] = "return" =>
                        /\ log'[c] = <<>>
                        /\ wk'[c] = 0
                        /\ cache_ics' = cache_ics
                        /\ cache_expires' = cache_expires
          /\ (pc[c] = "return" /\ wk[c] = 0 /\ pc'[c] = "done") =>
                 /\ log'[c] = <<>>
                 /\ resp'[c].status = 200
                 /\ resp'[c].body = cache_ics
                 /\ cache_ics' = cache_ics
                 /\ cache_expires' = cache_expires
      ]_vars

AllWindowsFailed(c) ==
    /\ Len(got[c]) = NumWeeks
    /\ \A i \in 1..NumWeeks : ~got[c][i].ok

\* C6: graceful degradation.  A cycle in which every window failed still
\* builds: it publishes a calendar of zero events, then an expiry of its
\* publication time plus the TTL; its call succeeds, the cache is populated
\* from then on, and a call that checks before that expiry does not refresh.
C6_AllWindowsFailStillPublishes ==
    [][ \A c \in Calls :
          AllWindowsFailed(c) =>
              /\ events[c] = <<>>
              /\ pc[c] = "build" =>
                     /\ pc'[c] \in {"build", "store_exp"}
                     /\ pc'[c] = "store_exp" =>
                            (cache_ics' = [kind |-> "ics", cal |-> <<>>]
                             /\ ics_cycle' = c)
              /\ (pc[c] = "store_exp" /\ pc'[c] # "store_exp") =>
                     /\ cache_expires' = [aware |-> TRUE, t |-> clock + REFRESH_MIN]
                     /\ exp_cycle' = c
              /\ pc'[c] \in {"store_exp", "return", "done"} =>
                     cache_ics'.kind = "ics"
              /\ pc'[c] = "done" =>
                     (resp'[c].status = 200 /\ resp'[c].body.kind = "ics")
              /\ \A d \in Calls :
                     (/\ pc[c] \in {"return", "done"}
                      /\ exp_cycle = c
                      /\ pc[d] = "check_exp"
                      /\ now[d] < cache_expires.t
                      /\ pc'[d] # "check_exp") => pc'[d] = "return"
      ]_vars

\* every window of one cycle failed, the cycle published the empty calendar
\* and its expiry, and a later call was served from the cache without a
\* refresh
C6_Witness ==
    \E c, d \in Calls :
        /\ AllWindowsFailed(c)
        /\ pc[c] = "done"
        /\ ics_cycle = c /\ exp_cycle = c
        /\ cache_ics = [kind |-> "ics", cal |-> <<>>]
        /\ pc[d] = "done" /\ wk[d] = 0 /\ resp[d].status = 200


(***************************************************************************)
(* Properties of one refresh cycle (SpecMerge).                            *)
(***************************************************************************)
KeyOf(ev) == <<ev.start, ev.end, ev.summary>>

Elems(sq) == {sq[i] : i \in 1..Len(sq)}

KeysOf(sq) == {KeyOf(sq[i]) : i \in 1..Len(sq)}

\* the records of the windows visited so far, in window then blob order
RECURSIVE Flatten(_)
Flatten(g) == IF Len(g) = 0 THEN <<>> ELSE Head(g).events \o Flatten(Tail(g))

\* the first record of sq with key k
FirstWith(sq, k) ==
    sq[CHOOSE i \in 1..Len(sq) :
           KeyOf(sq[i]) = k /\ \A j \in 1..(i - 1) : KeyOf(sq[j]) # k]

\* what window i gives: its records when the portal resolves the token,
\* answers the fetch and the blob parses, nothing otherwise
WindowAnswers(i) ==
    /\ portal[i].resolve = "token"
    /\ portal[i].fetch = "ok"
    /\ ~extract_events(portal[i].blob).raised

PastLoop(c) == wk[c] > NumWeeks

\* C7: per-window failure isolation.  Whatever windows fail, the cycle
\* visits every window; a failed window contributes no record, a window that
\* answers contributes its parsed records; the merged (and then published)
\* records are exactly the deduplicated records of the windows that answered.
C7_WindowFailureIsolated ==
    \A c \in Calls :
        wk[c] > 0 =>
            /\ Len(got[c]) = wk[c] - 1
            /\ pc[c] \notin {"resolve", "fetch"} => Len(got[c]) = NumWeeks
            /\ \A i \in 1..Len(got[c]) :
                   /\ got[c][i].ok = WindowAnswers(i)
                   /\ got[c][i].events =
                          IF WindowAnswers(i)
                          THEN extract_events(portal[i].blob).events ELSE <<>>
            /\ LET all == Flatten(got[c]) IN
                   /\ Elems(events[c]) = {FirstWith(all, k) : k \in KeysOf(all)}
                   /\ Len(events[c]) = Cardinality(KeysOf(all))
            /\ ics_cycle = c =>
                   /\ Len(cache_ics.cal) = Len(events[c])
                   /\ \A j \in 1..Len(events[c]) :
                          /\ cache_ics.cal[j].dtstart = events[c][j].start
                          /\ cache_ics.cal[j].dtend = events[c][j].end
                          /\ cache_ics.cal[j].summary = events[c][j].summary

\* a window failed, a later window answered with records, and the cycle
\* published them
C7_Witness ==
    \E c \in Calls :
        /\ pc[c] = "done"
        /\ ics_cycle = c
        /\ \E i, j \in 1..NumWeeks :
               /\ i < j
               /\ ~got[c][i].ok
               /\ got[c][j].ok
               /\ got[c][j].events # <<>>
               /\ Elems(got[c][j].events) \subseteq Elems(events[c])

\* C8: dedup.  The merged records hold exactly one record for each distinct
\* (start, end, summary) of the windows that answered, and it is the first
\* one in window then blob order; so their number is the number of distinct
\* triples, however often a triple repeats.
C8_DedupFirstOccurrence ==
    \A c \in Calls :
        LET all == Flatten(got[c]) IN
            /\ \A i, j \in 1..Len(events[c]) :
                   i # j => KeyOf(events[c][i]) # KeyOf(events[c][j])
            /\ KeysOf(events[c]) = KeysOf(all)
            /\ \A i \in 1..Len(events[c]) :
                   events[c][i] = FirstWith(all, KeyOf(events[c][i]))
            /\ Len(events[c]) = Cardinality(KeysOf(all))

\* two windows answered with records of the same triple that differ
\* elsewhere, and the merged set holds the one of the earlier window only
C8_Witness ==
    \E c \in Calls :
        /\ pc[c] = "done"
        /\ \E i, j \in 1..NumWeeks :
               /\ i < j
               /\ \E a \in Elems(got[c][i].events), b \in Elems(got[c][j].events) :
                      /\ KeyOf(a) = KeyOf(b)
                      /\ a # b
                      /\ a \in Elems(events[c])
                      /\ b \notin Elems(events[c])

\* ascending (start, summary)
Ascending(evs) ==
    \A i, j \in 1..Len(evs) :
        i < j =>
            ~ \/ SeqLess(evs[j].start, evs[i].start)
              \/ /\ evs[j].start = evs[i].start
                 /\ SeqLess(evs[j].summary, evs[i].summary)

Perms(n) == {f \in [1..n -> 1..n] : \A i, j \in 1..n : f[i] = f[j] => i = j}

\* main.py:160-182 run over the windows' records g taken in the order f
RECURSIVE MergeInOrder(_, _, _, _)
MergeInOrder(g, f, i, acc) ==
    IF i > Len(g) THEN acc.events
    ELSE MergeInOrder(g, f, i + 1, MergeWeek(acc.events, acc.seen, g[f[i]].events))

EventsInOrder(g, f) ==
    SortEvents(MergeInOrder(g, f, 1, [events |-> <<>>, seen |-> {}]))

SortKeys(evs) == [i \in 1..Len(evs) |-> <<evs[i].start, evs[i].summary>>]

Sorted(c) == PastLoop(c) /\ pc[c] # "build"

\* C9 as stated: the sequence handed to build_ics is in ascending
\* (start, summary) order and is the same sequence, record by record, for
\* every order in which the windows are processed.
C9_SameSequenceForEveryOrder ==
    \A c \in Calls :
        Sorted(c) =>
            /\ Ascending(events[c])
            /\ \A f \in Perms(NumWeeks) : EventsInOrder(got[c], f) = events[c]

\* C9 as amended: the sequence handed to build_ics is in ascending
\* (start, summary) order, and for every order in which the windows are
\* processed it has the same (start, end, summary) triples and the same
\* sequence of (start, summary) pairs.
C9_SortedSameKeysForEveryOrder ==
    \A c \in Calls :
        Sorted(c) =>
            /\ Ascending(events[c])
            /\ \A f \in Perms(NumWeeks) :
                   /\ KeysOf(EventsInOrder(got[c], f)) = KeysOf(events[c])
                   /\ SortKeys(EventsInOrder(got[c], f)) = SortKeys(events[c])

\* the sort moved a record of a later window before one of an earlier window
C9_Witness ==
    \E c \in Calls :
        /\ Sorted(c)
        /\ \E i, j \in 1..NumWeeks :
               /\ i < j
               /\ got[c][i].events # <<>>
               /\ got[c][j].events # <<>>
               /\ \E m, n \in 1..Len(events[c]) :
                      /\ m < n
                      /\ events[c][m] = got[c][j].events[1]
                      /\ events[c][n] = got[c][i].events[1]

\* the upstream calls of a cycle over the first n windows: one resolve per
\* window, at the whole-week offsets -WEEKS_BEFORE upwards, each followed by
\* one fetch when it returned a token
RECURSIVE ProtocolLog(_)
ProtocolLog(n) ==
    IF n = 0 THEN <<>>
    ELSE ProtocolLog(n - 1)
         \o << <<"resolve", n - 1 - WEEKS_BEFORE>> >>
         \o (IF portal[n].resolve = "token"
             THEN << <<"fetch", n - 1 - WEEKS_BEFORE>> >> ELSE <<>>)

IsPrefix(a, b) == Len(a) <= Len(b) /\ a = SubSeq(b, 1, Len(a))

\* C15: call protocol of one cycle.  The calls issued so far are a prefix
\* of, and after the loop are exactly: for the offsets -B..+A in ascending
\* order, one resolve, followed by one fetch exactly when the resolve
\* returned a token; nothing is called twice.
C15_CallProtocol ==
    \A c \in Calls :
        /\ IsPrefix(log[c], ProtocolLog(WEEKS_BEFORE + WEEKS_AFTER + 1))
        /\ pc[c] = "fetch" => log[c][Len(log[c])][1] = "resolve"
        /\ pc[c] \in {"build", "store_exp", "return", "done"} =>
               log[c] = ProtocolLog(WEEKS_BEFORE + WEEKS_AFTER + 1)

\* a finished cycle in which one window's resolve gave no token (or failed)
\* and was followed by no fetch, and another window was resolved and fetched
C15_Witness ==
    \E c \in Calls :
        /\ pc[c] = "done"
        /\ \E i, j \in 1..NumWeeks :
               /\ portal[i].resolve # "token"
               /\ portal[j].resolve = "token"
               /\ \E n \in 1..(Len(log[c]) - 1) :
                      log[c][n] = <<"resolve", Weeks[j]>>
                      /\ log[c][n + 1] = <<"fetch", Weeks[j]>>
               /\ \A n \in 1..Len(log[c]) : log[c][n] # <<"fetch", Weeks[i]>>
               /\ \E n \in 1..Len(log[c]) : log[c][n] = <<"resolve", Weeks[i]>>

\* C16: the cache slot.  It starts empty; bytes, once present, are never
\* absent again, and every write of the bytes stores a calendar; the expiry
\* changes only by the second store of a refresh, which sets it to the time
\* of that store plus the TTL.
C16_CacheSlotStateMachine ==
    /\ cache_ics = [kind |-> "None", cal |-> <<>>]
    /\ [][ /\ cache_ics.kind = "ics" => cache_ics'.kind = "ics"
           /\ cache_ics' # cache_ics => cache_ics'.kind = "ics"
           /\ \A c \in Calls :
                  (pc[c] = "store_exp" /\ pc'[c] # "store_exp") =>
                      cache_expires' = [aware |-> TRUE, t |-> clock + REFRESH_MIN]
           /\ cache_expires' # cache_expires =>
                  \E c \in Calls : pc[c] = "store_exp" /\ pc'[c] = "return"
         ]_vars

\* the slot was populated by one refresh and, after its expiry, replaced by
\* a later refresh, which set the expiry to its own time plus the TTL
C16_Witness ==
    \E c, d \in Calls :
        /\ c # d
        /\ pc[c] = "done" /\ resp[c].status = 200 /\ wk[c] > 0
        /\ pc[d] = "done" /\ resp[d].status = 200 /\ wk[d] > 0
        /\ now[d] >= now[c] + REFRESH_MIN
        /\ ics_cycle = d /\ exp_cycle = d
        /\ cache_ics.kind = "ics"
        /\ cache_expires = [aware |-> TRUE, t |-> clock + REFRESH_MIN]

\* C17: whenever a call is about to evaluate now >= _cache_expires, the
\* expiry is an aware one written by a refresh, never the naive datetime.min,
\* and no call fails on that comparison.
C17_ExpiryAwareWhenCompared ==
    \A c \in Calls :
        /\ pc[c] = "check_exp" => (cache_expires.aware /\ exp_cycle # 0)
        /\ resp[c].exc # "TypeError"

(***************************************************************************)
(* Properties of the parser (SpecParse).                                   *)
(***************************************************************************)
\* C10: extract_events never raises, whatever the blob: a block whose
\* constructor arguments give no timestamp is skipped.
C10_ExtractNeverRaises == p_pc # "raised"

\* the arguments of a constructor new Date(Y, M, D, h, m) that names an
\* instant: zero-based month 0..11, a day of that month, hour and minute
ValidJsDate(v) ==
    /\ Len(v) = 5
    /\ v[1] \in 1..9999
    /\ v[2] \in 0..11
    /\ v[3] >= 1 /\ v[3] <= DaysInMonth(v[1], v[2] + 1)
    /\ v[4] \in 0..23
    /\ v[5] \in 0..59

\* the timestamp a constructor's arguments denote, month one-based
Instant(v) == <<v[1], v[2] + 1, v[3], v[4], v[5]>>

\* a well-formed block: braces around a start key and an end key, in that
\* order, each bound to a constructor that names an instant, then any title
\* and body fields
IsWellFormed(p) ==
    /\ Len(p) >= 4
    /\ p[1].k = "lb" /\ p[Len(p)].k = "rb"
    /\ p[2].k = "start" /\ p[2].num /\ ValidJsDate(p[2].v)
    /\ p[3].k = "end" /\ p[3].num /\ ValidJsDate(p[3].v)
    /\ \A i \in 4..(Len(p) - 1) : p[i].k \in {"title", "body"}

\* a block with a start date token and no end date token
IsMissingEnd(p) ==
    /\ Len(p) >= 3
    /\ p[1].k = "lb" /\ p[Len(p)].k = "rb"
    /\ p[2].k = "start" /\ p[2].quoted /\ p[2].num /\ ValidJsDate(p[2].v)
    /\ \A i \in 3..(Len(p) - 1) : p[i].k \in {"title", "body"}

\* the ways of cutting the blob into the pieces it was made of
BlocksOf(blob) ==
    {ps \in UNION {[1..n -> Pieces] : n \in 0..MaxBlocks} : Join(ps) = blob}

\* C11: round trip on well-formed input.  For a blob of N well-formed blocks
\* extract_events returns N records, the i-th carrying the start and end of
\* the i-th block, equal blocks giving equal records; the empty blob gives
\* the empty sequence.
C11_OneRecordPerWellFormedBlock ==
    \A ps \in BlocksOf(js_blob) :
        (\A i \in 1..Len(ps) : IsWellFormed(ps[i])) =>
            /\ p_pc # "raised"
            /\ p_pc = "returned" =>
                   /\ Len(p_events) = Len(ps)
                   /\ \A i \in 1..Len(ps) :
                          /\ p_events[i].start = Instant(ps[i][2].v)
                          /\ p_events[i].end = Instant(ps[i][3].v)
                   /\ \A i, j \in 1..Len(ps) :
                          ps[i] = ps[j] => p_events[i] = p_events[j]

\* C12: malformed-block tolerance.  For a blob of one well-formed block and
\* one block with a start date token and no end date token, in either
\* order, extract_events does not raise and returns one record, whose start
\* and end are those of the well-formed block.
C12_MissingEndBlockSkipped ==
    \A ps \in BlocksOf(js_blob) :
        \A g, b \in 1..Len(ps) :
            (Len(ps) = 2 /\ g # b /\ IsWellFormed(ps[g]) /\ IsMissingEnd(ps[b])) =>
                /\ p_pc # "raised"
                /\ p_pc = "returned" =>
                       /\ Len(p_events) = 1
                       /\ p_events[1].start = Instant(ps[g][2].v)
                       /\ p_events[1].end = Instant(ps[g][3].v)

\* the stripped text of the first field of the kind in the block, and
\* whether the block has such a field
FieldTxt(block, what) ==
    LET m == FirstFrom(block, 1, what)
    IN  IF m = 0 THEN <<>> ELSE strip_html(unescape_js(block[m].text))

\* C13: bounded text.  Every emitted record has a non-empty summary of at
\* most 200 characters and a description of at most 2000; a stripped title
\* longer than 200 characters gives its first 200, a stripped body longer
\* than 2000 gives its first 2000, a shorter one is kept whole, an empty
\* stripped title gives "Class" and an absent body the empty string.
C13_SummaryAndDescriptionBounded ==
    [][ /\ \A i \in 1..Len(p_events') :
               /\ Len(p_events'[i].summary) \in 1..200
               /\ Len(p_events'[i].description) \in 0..2000
        /\ Len(p_events') = Len(p_events) + 1 =>
               LET r == p_events'[Len(p_events')]
                   t == FieldTxt(Head(blocks), "title")
                   d == FieldTxt(Head(blocks), "body")
               IN  /\ Len(t) > 200 => r.summary = SubSeq(t, 1, 200)
                   /\ Len(t) \in 1..200 => r.summary = t
                   /\ Len(t) = 0 => r.summary = <<67, 108, 97, 115, 115>>
                   /\ Len(d) > 2000 => r.description = SubSeq(d, 1, 2000)
                   /\ Len(d) <= 2000 => r.description = d
                   /\ FirstFrom(Head(blocks), 1, "body") = 0 => r.description = <<>>
      ]_vars

\* the parser returned a record cut to 200 and 2000 characters, a record
\* with the placeholder summary and a record of a block without a body
C13_Witness ==
    /\ p_pc = "returned"
    /\ \E i, j \in 1..Len(p_events) :
           /\ Len(p_events[i].summary) = 200
           /\ p_events[i].summary # Prefix(TxtLongTitle, 199) \o <<120>>
           /\ Len(p_events[i].description) = 2000
           /\ p_events[j].summary = <<67, 108, 97, 115, 115>>
           /\ p_events[j].description = <<>>

\* C14: month normalization.  An emitted record's start and end carry the
\* year, day, hour and minute of their date tokens unchanged and the month
\* plus one.
C14_MonthOneBased ==
    [][ Len(p_events') = Len(p_events) + 1 =>
            LET r == p_events'[Len(p_events')]
                b == Head(blocks)
                sm == FirstFrom(b, 1, "date")
                em == FirstFrom(b, sm + 1, "date")
            IN  /\ b[sm].v[2] \in 0..11 /\ b[em].v[2] \in 0..11
                /\ r.start = <<b[sm].v[1], b[sm].v[2] + 1, b[sm].v[3],
                               b[sm].v[4], b[sm].v[5]>>
                /\ r.end = <<b[em].v[1], b[em].v[2] + 1, b[em].v[3],
                             b[em].v[4], b[em].v[5]>>
      ]_vars

\* the parser returned records for the zero-based months 0, 8 and 11: their
\* months are 1, 9 and 12
C14_Witness ==
    /\ p_pc = "returned"
    /\ js_blob = Block3 \o Block1
    /\ Len(p_events) = 2
    /\ p_events[1].start = <<2025, 1, 31, 9, 0>>
    /\ p_events[1].end = <<2025, 12, 31, 10, 0>>
    /\ p_events[2].start = <<2025, 9, 18, 18, 10>>


====
